---- MODULE Spec2Model ----
(***************************************************************************)
(* ML model server of ml_model/scripts: the models directory on disk, the  *)
(* ModelInference engine built from it (inference.py), the ModelAPI        *)
(* wrapper and the Flask endpoints of backend_integration.py.              *)
(*                                                                         *)
(* Numbers are fixed point: the real number 1.0 is the integer Resolution. *)
(* The pickled estimators are library objects; each is represented by the  *)
(* parameters that decide what its predict / predict_proba / transform     *)
(* call returns or raises (column count, coefficients, class list), so     *)
(* that every call is a deterministic function of the artifact and of the  *)
(* input row.                                                              *)
(***************************************************************************)
EXTENDS Integers, Sequences, FiniteSets, TLC

\* ---------------------------------------------------------------- bounds
Resolution == 4        \* fixed-point grid: 1.0 == Resolution
MaxClock == 1          \* the wall clock takes the values 0..MaxClock
MaxKeys == 1           \* keys of a features dict passed to a direct call
Grid == 20             \* grid of the table values: 1.0 == Grid

\* pd.date_range('2024-01-01', periods=30): rows of the synthetic table
Periods == 30
\* rolling(window=7) and shift(-7) of the NDVI target
Window == 7

\* ------------------------------------------------------------ exceptions
Ok(v) == [ok |-> TRUE, v |-> v]
Raise(cls, m) == [ok |-> FALSE, exc |-> cls, msg |-> m]

\* Classes raised during request handling; all derive from Exception.
ExceptionClasses ==
    {"ValueError", "KeyError", "IndexError", "AttributeError", "BadRequest"}

\* ------------------------------------------------------------ JSON values
Num(n) == [t |-> "num", v |-> n]
Str == [t |-> "str", v |-> 0]          \* a non-numeric string value

AllFields ==
    {"ndvi", "ndvi_prev", "ndvi_change", "red_band", "nir_band",
     "blue_band", "green_band", "cloud_cover", "temperature", "humidity"}

Object(f) == [kind |-> "object", fields |-> f]
NonObject(k) == [kind |-> k, fields |-> [c \in {} |-> Num(0)]]

\* ------------------------------------------------------------ arithmetic
RECURSIVE Dot(_, _, _)
Dot(coef, xs, n) ==
    IF n = 0 THEN 0 ELSE coef[n] * xs[n] + Dot(coef, xs, n - 1)

Max2(a, b) == IF a >= b THEN a ELSE b
Min2(a, b) == IF a <= b THEN a ELSE b

\* ------------------------------------------------- per-task feature lists
NdviFeatureCols ==
    <<"ndvi_prev", "ndvi_change", "red_band", "nir_band",
      "cloud_cover", "temperature", "humidity">>

ChangeFeatureCols ==
    <<"ndvi", "ndvi_prev", "ndvi_change", "red_band", "nir_band",
      "cloud_cover", "temperature">>

RiskFeatureCols ==
    <<"ndvi", "ndvi_change", "red_band", "nir_band",
      "cloud_cover", "temperature", "humidity">>

\* Columns of the training matrix of the NDVI regressor (9 columns).
NdviTrainingCols ==
    <<"ndvi_prev", "ndvi_change", "red_band", "nir_band",
      "blue_band", "green_band", "cloud_cover", "temperature", "humidity">>

Range(s) == {s[i] : i \in 1..Len(s)}

\* ------------------------------------------------------ library objects
None == [type |-> "NoneType"]
Absent == [type |-> "absent"]
Corrupt == [type |-> "corrupt"]

ModelNames == {"ndvi_predictor", "change_detector", "risk_classifier"}
ArtifactNames == ModelNames \cup {"scaler"}

Coef(n) == [i \in 1..n |-> IF i % 2 = 1 THEN 1 ELSE -1]

MinMaxScaler(cols, lo, hi) ==
    [type |-> "MinMaxScaler", cols |-> cols,
     data_min |-> [i \in 1..Len(cols) |-> lo],
     data_max |-> [i \in 1..Len(cols) |-> hi]]

Regressor(n, bias) ==
    [type |-> "XGBRegressor", n_features_in |-> n, coef |-> Coef(n),
     bias |-> bias]

Classifier(n, bias, classes) ==
    [type |-> "Classifier", n_features_in |-> n, coef |-> Coef(n),
     bias |-> bias, classes |-> classes]

\* scaler.transform(X): rejects a non-numeric cell and a wrong column
\* count, otherwise maps each column with (x - min) / (max - min); a
\* constant column is left unscaled.
transform(sc, X) ==
    IF \E i \in 1..Len(X) : X[i].t # "num"
    THEN Raise("ValueError", "could not convert string to float")
    ELSE IF Len(X) # Len(sc.cols)
    THEN Raise("ValueError",
               "X has a different number of features than MinMaxScaler is expecting")
    ELSE Ok([i \in 1..Len(X) |->
              LET span == sc.data_max[i] - sc.data_min[i]
              IN  IF span = 0 THEN X[i].v - sc.data_min[i]
                  ELSE ((X[i].v - sc.data_min[i]) * Resolution) \div span])

\* model.predict(X_scaled)[0] of the regressor
regressor_predict(m, Xs) ==
    IF Len(Xs) # m.n_features_in
    THEN Raise("ValueError", "Feature shape mismatch")
    ELSE Ok(m.bias + Dot(m.coef, Xs, Len(Xs)))

\* Index (1-based) of the class with the largest probability.
ArgMax(m, Xs) == ((m.bias + Dot(m.coef, Xs, Len(Xs))) % Len(m.classes)) + 1

\* Probability of the most likely class: more than one half.
TopProbability(m, Xs) ==
    IF Len(m.classes) = 1 THEN Resolution
    ELSE Resolution -
           (((m.bias + Dot(m.coef, Xs, Len(Xs))) \div Len(m.classes))
              % Max2(1, Resolution \div 2))

\* model.predict_proba(X_scaled)[0]: one probability per class, summing
\* to 1.0; the remainder left by the top class goes to the other classes
\* in class order.
classifier_predict_proba(m, Xs) ==
    IF Len(Xs) # m.n_features_in
    THEN Raise("ValueError", "Feature shape mismatch")
    ELSE LET top == ArgMax(m, Xs)
             ptop == TopProbability(m, Xs)
             rest == Resolution - ptop
             rank(j) == IF j < top THEN j ELSE j - 1
         IN  Ok([j \in 1..Len(m.classes) |->
                   IF j = top THEN ptop
                   ELSE IF rank(j) = 1 THEN rest ELSE 0])

\* model.predict(X_scaled)[0] of a classifier: the label of the class
\* with the largest probability.
classifier_predict(m, Xs) ==
    IF Len(Xs) # m.n_features_in
    THEN Raise("ValueError", "Feature shape mismatch")
    ELSE Ok(m.classes[ArgMax(m, Xs)])

\* ------------------------------------------------ ModelInference (engine)
\* features.get(col, 1.0): a missing field read as 1.0
GetDefaultOne(fields, col, default) ==
    IF col \in DOMAIN fields THEN fields[col] ELSE Num(Resolution)

\* features.get(col, default)
Get(fields, col, default) ==
    IF col \in DOMAIN fields THEN fields[col] ELSE default

\* np.array([[features.get(col, 0) for col in feature_cols]])
BuildRow(fields, cols, default) ==
    [i \in 1..Len(cols) |-> Get(fields, cols[i], default)]

\* features.get on a value that is not a dict
NoGetAttribute(kind) ==
    Raise("AttributeError",
          IF kind = "null" THEN "'NoneType' object has no attribute 'get'"
          ELSE IF kind = "array" THEN "'list' object has no attribute 'get'"
          ELSE IF kind = "number" THEN "'int' object has no attribute 'get'"
          ELSE "'str' object has no attribute 'get'")

\* raise ValueError(f"<prefix>: {str(e)}. Input shape: ..., Features: ...")
Wrap(prefix, e) ==
    Raise("ValueError",
          prefix \o ": " \o e.msg \o ". Input shape: (1, 7), Features: [...]")

\* np.clip with the lower bound left out
clipUpperOnly(x, lo, hi) == Min2(hi, x)

\* np.clip(prediction, 0, 1)
clip(x, lo, hi) == Max2(lo, Min2(hi, x))

\* a check on the number of loaded models in place of the task's own model
some_model_missing(mdls, name) == DOMAIN mdls # ModelNames

\* 'ndvi_predictor' not in self.models
model_missing(mdls, name) == name \notin DOMAIN mdls

predict_ndvi(mdls, sc, features) ==
    IF model_missing(mdls, "ndvi_predictor")
    THEN Raise("ValueError", "NDVI predictor model not loaded")
    ELSE IF sc = None
    THEN Raise("ValueError", "Scaler not loaded")
    ELSE IF features.kind # "object"
    THEN NoGetAttribute(features.kind)
    ELSE LET X == BuildRow(features.fields, NdviFeatureCols, Num(0))
             Xs == transform(sc, X)
             p == regressor_predict(mdls["ndvi_predictor"], Xs.v)
         IN  IF ~Xs.ok THEN Wrap("Prediction failed", Xs)
             ELSE IF ~p.ok THEN Wrap("Prediction failed", p)
             ELSE Ok(clip(p.v, 0, Resolution))

predict_change_detection(mdls, sc, features) ==
    IF model_missing(mdls, "change_detector")
    THEN Raise("ValueError", "Change detector model not loaded")
    ELSE IF sc = None
    THEN Raise("ValueError", "Scaler not loaded")
    ELSE IF features.kind # "object"
    THEN NoGetAttribute(features.kind)
    ELSE LET X == BuildRow(features.fields, ChangeFeatureCols, Num(0))
             Xs == transform(sc, X)
             m == mdls["change_detector"]
             p == classifier_predict(m, Xs.v)
             pr == classifier_predict_proba(m, Xs.v)
             prefix == "Change detection prediction failed"
         IN  IF ~Xs.ok THEN Wrap(prefix, Xs)
             ELSE IF ~p.ok THEN Wrap(prefix, p)
             ELSE IF ~pr.ok THEN Wrap(prefix, pr)
             ELSE IF Len(pr.v) < 2
             THEN Wrap(prefix,
                       Raise("IndexError",
                             "index 1 is out of bounds for axis 0 with size 1"))
             ELSE Ok([is_change |-> (p.v # 0), confidence |-> pr.v[2]])

\* a label table with a fourth level
risk_levels_four ==
    [l \in {0, 1, 2, 3} |->
       IF l = 0 THEN "Low" ELSE IF l = 1 THEN "Medium"
       ELSE IF l = 2 THEN "High" ELSE "Critical"]

\* risk_levels = {0: 'Low', 1: 'Medium', 2: 'High'}
risk_levels == [l \in {0, 1, 2} |->
                  IF l = 0 THEN "Low" ELSE IF l = 1 THEN "Medium" ELSE "High"]

\* min(probabilities) in place of max(probabilities)
RECURSIVE SeqMin(_, _)
SeqMin(s, n) == IF n = 1 THEN s[1] ELSE Min2(s[n], SeqMin(s, n - 1))

RECURSIVE SeqMax(_, _)
SeqMax(s, n) == IF n = 1 THEN s[1] ELSE Max2(s[n], SeqMax(s, n - 1))

predict_risk_level(mdls, sc, features) ==
    IF model_missing(mdls, "risk_classifier")
    THEN Raise("ValueError", "Risk classifier model not loaded")
    ELSE IF sc = None
    THEN Raise("ValueError", "Scaler not loaded")
    ELSE IF features.kind # "object"
    THEN NoGetAttribute(features.kind)
    ELSE LET X == BuildRow(features.fields, RiskFeatureCols, Num(0))
             Xs == transform(sc, X)
             m == mdls["risk_classifier"]
             p == classifier_predict(m, Xs.v)
             pr == classifier_predict_proba(m, Xs.v)
             prefix == "Risk level prediction failed"
         IN  IF ~Xs.ok THEN Wrap(prefix, Xs)
             ELSE IF ~p.ok THEN Wrap(prefix, p)
             ELSE IF ~pr.ok THEN Wrap(prefix, pr)
             ELSE IF p.v \notin DOMAIN risk_levels
             THEN Wrap(prefix, Raise("KeyError", ToString(p.v)))
             ELSE Ok([risk_level |-> p.v,
                      risk_label |-> risk_levels[p.v],
                      confidence |-> SeqMax(pr.v, Len(pr.v))])

\* predict_all that keeps the results of the sub-predictions that succeeded
predict_all_partial(mdls, sc, features) ==
    LET n == predict_ndvi(mdls, sc, features)
        c == predict_change_detection(mdls, sc, features)
        r == predict_risk_level(mdls, sc, features)
        done == (IF n.ok THEN {"ndvi_forecast"} ELSE {})
                  \cup (IF c.ok THEN {"change_detection"} ELSE {})
                  \cup (IF r.ok THEN {"risk_assessment"} ELSE {})
    IN  Ok([k \in done |->
              IF k = "ndvi_forecast" THEN n.v
              ELSE IF k = "change_detection" THEN c.v ELSE r.v])

\* The dict literal evaluates its three values in order; the first
\* exception leaves predict_all.
predict_all(mdls, sc, features) ==
    LET n == predict_ndvi(mdls, sc, features)
        c == predict_change_detection(mdls, sc, features)
        r == predict_risk_level(mdls, sc, features)
    IN  IF ~n.ok THEN n
        ELSE IF ~c.ok THEN c
        ELSE IF ~r.ok THEN r
        ELSE Ok([ndvi_forecast |-> n.v,
                 change_detection |-> c.v,
                 risk_assessment |-> r.v])

\* ------------------------------------------------------------- ModelAPI
\* `except ValueError` in place of `except Exception`
IsValueErrorOnly(cls) == cls = "ValueError"

\* `except Exception`: every class raised while a request is handled
IsException(cls) == cls \in ExceptionClasses

\* process_request that stamps its error result too
process_request_stamped(mdls, sc, clock, request_data) ==
    IF request_data.kind # "object"
    THEN Ok([error |-> "Invalid request format"])
    ELSE LET predictions == predict_all(mdls, sc, request_data)
         IN  IF predictions.ok
             THEN Ok([success |-> TRUE,
                      timestamp |-> clock,
                      predictions |-> predictions.v,
                      input_features |-> request_data.fields])
             ELSE Ok([success |-> FALSE,
                      error |-> predictions.msg \o " at " \o ToString(clock)])

process_request(mdls, sc, clock, request_data) ==
    IF request_data.kind # "object"
    THEN Ok([error |-> "Invalid request format"])
    ELSE LET predictions == predict_all(mdls, sc, request_data)
         IN  IF predictions.ok
             THEN Ok([success |-> TRUE,
                      timestamp |-> clock,
                      predictions |-> predictions.v,
                      input_features |-> request_data.fields])
             ELSE IF IsException(predictions.exc)
             THEN Ok([success |-> FALSE, error |-> predictions.msg])
             ELSE predictions

\* ------------------------------------------------------- Flask endpoints
Response(status, json) == [status |-> status, json |-> json]

\* request.get_json()
get_json(body) ==
    IF body.kind = "malformed"
    THEN Raise("BadRequest",
               "400 Bad Request: Failed to decode JSON object")
    ELSE Ok(body)

\* @app.errorhandler(500): an exception that leaves a view function
server_error == Response(500, [error |-> "Internal server error"])

\* the error envelope returned without its status code
ErrorEnvelopeDefaultStatus(e) ==
    Response(200, [success |-> FALSE, error |-> e.msg])

\* except Exception as e: return jsonify({'success': False, ...}), 400
ErrorEnvelope(e) ==
    IF IsException(e.exc)
    THEN Response(400, [success |-> FALSE, error |-> e.msg])
    ELSE server_error

\* /health listing the three model names whatever was loaded
health_check_static(mdls) ==
    Response(200, [status |-> "healthy",
                   service |-> "ML Model Server",
                   models |-> ModelNames])

health_check(mdls) ==
    Response(200, [status |-> "healthy",
                   service |-> "ML Model Server",
                   models |-> DOMAIN mdls])

route_predict_ndvi(mdls, sc, body) ==
    LET data == get_json(body)
        prediction == predict_ndvi(mdls, sc, data.v)
    IN  IF ~data.ok THEN ErrorEnvelope(data)
        ELSE IF ~prediction.ok THEN ErrorEnvelope(prediction)
        ELSE Response(200,
               [success |-> TRUE,
                ndvi_forecast |-> prediction.v,
                unit |-> "normalized (0-1)",
                interpretation |->
                    "Higher values indicate healthier vegetation"])

\* /predict/change with the severity threshold at 0.5
route_predict_change_half(mdls, sc, body) ==
    LET data == get_json(body)
        prediction == predict_change_detection(mdls, sc, data.v)
    IN  IF ~data.ok THEN ErrorEnvelope(data)
        ELSE IF ~prediction.ok THEN ErrorEnvelope(prediction)
        ELSE Response(200,
               [success |-> TRUE,
                change_detected |-> prediction.v.is_change,
                confidence |-> prediction.v.confidence,
                severity |->
                    IF /\ prediction.v.is_change
                       /\ 10 * prediction.v.confidence > 5 * Resolution
                    THEN "high" ELSE "low"])

route_predict_change(mdls, sc, body) ==
    LET data == get_json(body)
        prediction == predict_change_detection(mdls, sc, data.v)
    IN  IF ~data.ok THEN ErrorEnvelope(data)
        ELSE IF ~prediction.ok THEN ErrorEnvelope(prediction)
        ELSE Response(200,
               [success |-> TRUE,
                change_detected |-> prediction.v.is_change,
                confidence |-> prediction.v.confidence,
                severity |->
                    IF /\ prediction.v.is_change
                       /\ 10 * prediction.v.confidence > 8 * Resolution
                    THEN "high" ELSE "low"])

route_predict_risk(mdls, sc, body) ==
    LET data == get_json(body)
        prediction == predict_risk_level(mdls, sc, data.v)
    IN  IF ~data.ok THEN ErrorEnvelope(data)
        ELSE IF ~prediction.ok THEN ErrorEnvelope(prediction)
        ELSE Response(200,
               [success |-> TRUE,
                risk_level |-> prediction.v.risk_level,
                risk_label |-> prediction.v.risk_label,
                confidence |-> prediction.v.confidence,
                action_required |->
                    IF prediction.v.risk_level = 2 THEN "high"
                    ELSE IF prediction.v.risk_level = 1 THEN "moderate"
                    ELSE "none"])

route_predict_all(mdls, sc, clock, body) ==
    LET data == get_json(body)
        result == process_request(mdls, sc, clock, data.v)
    IN  IF ~data.ok THEN ErrorEnvelope(data)
        ELSE IF ~result.ok THEN ErrorEnvelope(result)
        ELSE IF "success" \notin DOMAIN result.v
        THEN ErrorEnvelope(Raise("KeyError", "'success'"))
        ELSE IF result.v.success THEN Response(200, result.v)
        ELSE Response(400, result.v)

\* --------------------------------------------------- the models directory
\* load_models without the per-artifact except FileNotFoundError
load_models_fail_fast(d) ==
    IF \E name \in ArtifactNames : d[name] \in {Absent, Corrupt}
    THEN Raise("FileNotFoundError", "No such file or directory")
    ELSE Ok([models |-> [name \in ModelNames |-> d[name]],
             scaler |-> d["scaler"]])

\* joblib.load(os.path.join(self.models_dir, name + '.pkl'))
joblib_load(d, name) ==
    IF d[name] = Absent
    THEN Raise("FileNotFoundError", "No such file or directory")
    ELSE IF d[name] = Corrupt
    THEN Raise("UnpicklingError", "invalid load key")
    ELSE Ok(d[name])

\* ModelInference.__init__ / load_models: only FileNotFoundError is
\* caught, per artifact; any other exception leaves the constructor.
load_models(d) ==
    IF \E name \in ArtifactNames :
          ~joblib_load(d, name).ok
          /\ joblib_load(d, name).exc # "FileNotFoundError"
    THEN Raise("UnpicklingError", "invalid load key")
    ELSE Ok([models |->
               [name \in {n \in ModelNames : joblib_load(d, n).ok} |->
                  joblib_load(d, name).v],
             scaler |->
               IF joblib_load(d, "scaler").ok
               THEN joblib_load(d, "scaler").v ELSE None])

\* Contents the four artifacts can have.
ConsistentDir ==
    [name \in ArtifactNames |->
       IF name = "ndvi_predictor" THEN Regressor(7, 2)
       ELSE IF name = "change_detector" THEN Classifier(7, 0, <<0, 1>>)
       ELSE IF name = "risk_classifier" THEN Classifier(7, 1, <<0, 1, 2>>)
       ELSE MinMaxScaler(RiskFeatureCols, 1, 1 + Resolution)]

\* What train_model.py writes: the regressor is fit on the 9 columns of
\* prepare_features_for_ndvi_prediction.
TrainedDir ==
    [ConsistentDir EXCEPT
       !["ndvi_predictor"] = Regressor(Len(NdviTrainingCols), 2),
       !["change_detector"] = Classifier(7, 1, <<0, 1>>),
       !["risk_classifier"] = Classifier(7, 0, <<0, 1, 2>>)]

\* Classifiers fit on other label sets: a single class, a fourth class.
OddLabelsDir ==
    [ConsistentDir EXCEPT
       !["change_detector"] = Classifier(7, 0, <<0>>),
       !["risk_classifier"] = Classifier(7, 2, <<0, 1, 2, 3>>)]

\* A scaler saved after the NDVI preparation only (9 columns).
WideScalerDir ==
    [ConsistentDir EXCEPT
       !["scaler"] =
           MinMaxScaler(NdviTrainingCols, 1, 1 + Resolution)]

Directories == {ConsistentDir, TrainedDir, OddLabelsDir, WideScalerDir}

FileStates == {"absent", "valid", "corrupt"}

\* ------------------------------------------------------------ the inputs
\* sample_features of inference.py, on the fixed-point grid
sample_features ==
    [f \in AllFields |->
       Num(IF f = "ndvi_prev" THEN (7 * Resolution) \div 10
           ELSE IF f = "ndvi_change" THEN (-5 * Resolution) \div 100
           ELSE IF f = "red_band" THEN (25 * Resolution) \div 100
           ELSE IF f = "nir_band" THEN (50 * Resolution) \div 100
           ELSE IF f = "blue_band" THEN (15 * Resolution) \div 100
           ELSE IF f = "green_band" THEN (30 * Resolution) \div 100
           ELSE IF f = "cloud_cover" THEN (1 * Resolution) \div 10
           ELSE IF f = "temperature" THEN (255 * Resolution) \div 10
           ELSE IF f = "humidity" THEN 65 * Resolution
           ELSE (65 * Resolution) \div 100)]

Restrict(f, keys) == [k \in DOMAIN f \cap keys |-> f[k]]

\* Bodies of the POST requests: JSON objects (empty, complete, with fields
\* left out, with a non-numeric value), JSON that is not an object, and a
\* body that is not JSON at all.
RequestBodies ==
    { Object(Restrict(sample_features, {})),
      Object(sample_features),
      Object(Restrict(sample_features, AllFields \ {"humidity", "ndvi"})),
      Object(Restrict(sample_features, {"blue_band", "green_band"})),
      Object([sample_features EXCEPT !["red_band"] = Str]),
      NonObject("null"),
      NonObject("array"),
      NonObject("malformed") }

\* Values of a field in a direct call of the engine
FeatureValues == {Num(0), Num(1)}

\* features dicts with at most MaxKeys keys, and the sample objects
FeatureDicts ==
    UNION { { Object(f) : f \in [K -> FeatureValues] } :
            K \in {S \in SUBSET AllFields : Cardinality(S) <= MaxKeys} }
    \cup {b \in RequestBodies : b.kind = "object"}

\* ------------------------------------- SatelliteDataPreprocessor (table)
\* A missing value of a table cell
NaN == [t |-> "nan", v |-> 0]

\* pd.isna of a cell
isna(c) == c.t = "nan"

\* The mean of n values whose sum is s, kept as an exact fraction
Mean(s, n) == [t |-> "num", v |-> s, n |-> n]

\* The draws of the seeded generator: np.random.seed(42) fixes one stream,
\* whose values the program does not choose.
Streams == [a : {0, 1, 7, 11}, b : {0, 3, 9, 14}]

\* The k-th np.random.uniform(lo, hi, 30) of the stream, entry i
uniform(rng, k, i) == (rng.b + rng.a * k + k * i) % (Grid + 1)

\* ndvi_base + np.random.normal(0, 0.05, 30), entry i: may leave [0, 1]
ndvi_noisy(rng, i) == ((rng.a * i + rng.b) % (Grid + 5)) - 2

\* np.clip(ndvi_noisy, 0, 1)
ndvi_values(rng) == [i \in 1..Periods |-> clip(ndvi_noisy(rng, i), 0, Grid)]

\* np.roll(s, 1): every entry moves one place up, the last one wraps
\* around to the front
roll(s) == [i \in 1..Len(s) |-> IF i = 1 THEN s[Len(s)] ELSE s[i - 1]]

\* np.diff(s, prepend=p)
diff(s, p) == [i \in 1..Len(s) |-> s[i] - (IF i = 1 THEN p ELSE s[i - 1])]

RECURSIVE SumRange(_, _, _)
SumRange(s, lo, hi) == IF lo > hi THEN 0 ELSE s[hi] + SumRange(s, lo, hi - 1)

\* s.rolling(window, min_periods).mean()
rolling_mean(s, window, min_periods) ==
    [i \in 1..Len(s) |->
       LET lo == Max2(1, i - window + 1)
           n == i - lo + 1
       IN  IF n < min_periods THEN NaN ELSE Mean(SumRange(s, lo, i), n)]

\* s.shift(periods): entry i takes the value of entry i - periods
shift(s, periods) ==
    [i \in 1..Len(s) |->
       IF i - periods \in 1..Len(s) THEN s[i - periods] ELSE NaN]

\* (ndvi_change < -0.1).astype(int)
is_change_label(change) == IF 100 * change < -10 * Grid THEN 1 ELSE 0

\* the rule with non-strict comparisons
risk_level_label_inclusive(ndvi, change) ==
    IF 10 * ndvi <= 4 * Grid THEN 2
    ELSE IF 10 * ndvi <= 6 * Grid \/ 100 * change <= -5 * Grid THEN 1
    ELSE 0

\* np.where(ndvi < 0.4, 2, np.where((ndvi < 0.6) | (change < -0.05), 1, 0))
risk_level_label(ndvi, change) ==
    IF 10 * ndvi < 4 * Grid THEN 2
    ELSE IF 10 * ndvi < 6 * Grid \/ 100 * change < -5 * Grid THEN 1
    ELSE 0

\* generate_synthetic_training_data: the table, one record per day
generate_synthetic_training_data(rng) ==
    LET ndvi == ndvi_values(rng)
        prev == roll(ndvi)
        change == diff(ndvi, 0)
        ahead == shift(rolling_mean(ndvi, Window, 1), -Window)
    IN  [i \in 1..Periods |->
           [date |-> Num(i),
            ndvi |-> Num(ndvi[i]),
            ndvi_prev |-> Num(prev[i]),
            ndvi_change |-> Num(change[i]),
            red_band |-> Num(uniform(rng, 1, i)),
            nir_band |-> Num(uniform(rng, 2, i)),
            blue_band |-> Num(uniform(rng, 3, i)),
            green_band |-> Num(uniform(rng, 4, i)),
            cloud_cover |-> Num(uniform(rng, 5, i)),
            temperature |-> Num(uniform(rng, 6, i)),
            humidity |-> Num(uniform(rng, 7, i)),
            ndvi_7day_ahead |-> ahead[i],
            is_change |-> Num(is_change_label(change[i])),
            risk_level |-> Num(risk_level_label(ndvi[i], change[i]))]]

\* ------------------------------ SatelliteDataPreprocessor (preparation)
\* MinMaxScaler(feature_range=(0, 1)) before any fit
Unfitted == [type |-> "MinMaxScaler", fitted |-> FALSE]

\* scaler.fit(X): the minimum and the maximum of every column
fit(cols, X) ==
    [type |-> "MinMaxScaler", cols |-> cols,
     data_min |-> [j \in 1..Len(cols) |->
                     SeqMin([k \in 1..Len(X) |-> X[k][j].v], Len(X))],
     data_max |-> [j \in 1..Len(cols) |->
                     SeqMax([k \in 1..Len(X) |-> X[k][j].v], Len(X))]]

\* the index of df[cols].dropna(): the rows without a missing value
dropna(df, index, cols) ==
    SelectSeq(index, LAMBDA i : \A c \in Range(cols) : ~isna(df[i][c]))

\* X.index.intersection(y.index), in the order of X.index
intersection(X_index, y_index) ==
    SelectSeq(X_index, LAMBDA i : i \in Range(y_index))

\* the preparation without the alignment of X on the common index
prepare_features_unaligned(df, feature_cols, target) ==
    LET X_index == dropna(df, [i \in 1..Len(df) |-> i], feature_cols)
        y_index == dropna(df, X_index, <<target>>)
        X == [k \in 1..Len(X_index) |->
                [j \in 1..Len(feature_cols) |-> df[X_index[k]][feature_cols[j]]]]
        y == [k \in 1..Len(y_index) |-> df[y_index[k]][target]]
        fitted == fit(feature_cols, X)
    IN  [scaler_features |-> fitted,
         X |-> [k \in 1..Len(X) |-> transform(fitted, X[k]).v],
         y |-> y,
         feature_cols |-> feature_cols]

\* The body shared by the three prepare_features_for_* methods:
\* X = df[feature_cols].dropna(); y = df.loc[X.index, target].dropna();
\* both cut to the common index; X_scaled = scaler_features.fit_transform(X);
\* returns X_scaled, y.values, feature_cols and leaves the scaler refitted.
prepare_features(df, feature_cols, target) ==
    LET X_index == dropna(df, [i \in 1..Len(df) |-> i], feature_cols)
        y_index == dropna(df, X_index, <<target>>)
        common_idx == intersection(X_index, y_index)
        X == [k \in 1..Len(common_idx) |->
                [j \in 1..Len(feature_cols) |-> df[common_idx[k]][feature_cols[j]]]]
        y == [k \in 1..Len(common_idx) |-> df[common_idx[k]][target]]
        fitted == fit(feature_cols, X)
    IN  [scaler_features |-> fitted,
         X |-> [k \in 1..Len(X) |-> transform(fitted, X[k]).v],
         y |-> y,
         feature_cols |-> feature_cols]

prepare_features_for_ndvi_prediction(df) ==
    prepare_features(df, NdviTrainingCols, "ndvi_7day_ahead")

prepare_features_for_change_detection(df) ==
    prepare_features(df, ChangeFeatureCols, "is_change")

prepare_features_for_risk_classification(df) ==
    prepare_features(df, RiskFeatureCols, "risk_level")

\* ------------------------------------------------------- ModelTrainer
\* The sorted distinct labels of y
RECURSIVE SortedSeq(_)
SortedSeq(S) ==
    IF S = {} THEN <<>>
    ELSE LET m == CHOOSE x \in S : \A z \in S : x <= z
         IN  <<m>> \o SortedSeq(S \ {m})

unique(y) == SortedSeq({y[k].v : k \in 1..Len(y)})

count(y, label) == Cardinality({k \in 1..Len(y) : y[k].v = label})

\* train_test_split(X, y, test_size=0.2, random_state=42, stratify=...):
\* a stratified split needs two members of every class
train_test_split(X, y, stratify) ==
    IF stratify /\ \E l \in Range(unique(y)) : count(y, l) < 2
    THEN Raise("ValueError",
               "The least populated class in y has only 1 member")
    ELSE Ok([n_features |-> Len(X[1]), y |-> y])

\* What a fit leaves in the model besides its shape: a value that depends
\* on the training data
fitted_bias(y) == SumRange([k \in 1..Len(y) |-> y[k].v], 1, Len(y)) % 3

\* train_ndvi_prediction_model: XGBRegressor.fit on the training part
train_ndvi_prediction_model(split) ==
    Ok(Regressor(split.n_features, fitted_bias(split.y)))

\* train_change_detection_model: RandomForestClassifier.fit, then
\* predict_proba(X_test)[:, 1], which needs a second class
train_change_detection_model(split) ==
    IF Len(unique(split.y)) < 2
    THEN Raise("IndexError", "index 1 is out of bounds for axis 1 with size 1")
    ELSE Ok(Classifier(split.n_features, fitted_bias(split.y), unique(split.y)))

\* train_risk_classification_model: XGBClassifier.fit accepts only the
\* labels 0..k-1
train_risk_classification_model(split) ==
    IF unique(split.y) # [l \in 1..Len(unique(split.y)) |-> l - 1]
    THEN Raise("ValueError", "Invalid classes inferred from unique values of y")
    ELSE Ok(Classifier(split.n_features, fitted_bias(split.y), unique(split.y)))

\* ----------------------------------------------------------------- state
VARIABLES
    disk,      \* models directory: artifact name -> Absent, Corrupt or object
    phase,     \* "boot", "serving" (model_api built) or "failed"
    models,    \* ModelInference.models
    scaler,    \* ModelInference.scaler
    now,       \* wall clock read by pd.Timestamp.now()
    last,      \* the latest request and its response
    saved,     \* an earlier request and its response
    ret,       \* the latest direct call of the engine and what it returned
    rng,       \* the stream np.random.seed(42) selects
    script,    \* the script being run: "none", "preprocess" or "train_model"
    pc,        \* the next step of the script, "done" or "failed"
    df,        \* the synthetic table
    scaler_features,  \* SatelliteDataPreprocessor.scaler_features
    prepared,  \* task -> what its prepare_features_for_* call returned
    trainer,   \* ModelTrainer: models and metrics
    metrics_json      \* ../models/metrics.json

\* the variables of the server and of the engine
serveVars == <<phase, models, scaler, now, last, saved, ret>>

\* the variables of a script run
runVars == <<rng, script, pc, df, scaler_features, prepared, trainer,
             metrics_json>>

vars == <<disk, phase, models, scaler, now, last, saved, ret, rng, script,
          pc, df, scaler_features, prepared, trainer, metrics_json>>

NoCall == [ep |-> "none"]
NoReturn == [fn |-> "none"]

\* No script has run: no table, an unfitted scaler, an empty trainer.
NoRun ==
    /\ script = "none"
    /\ pc = "done"
    /\ df = <<>>
    /\ scaler_features = Unfitted
    /\ prepared = [task \in {} |-> None]
    /\ trainer = [models |-> [name \in {} |-> None], metrics |-> {}]
    /\ metrics_json = Absent

Init ==
    /\ \E dir \in Directories, st \in [ArtifactNames -> FileStates] :
          disk = [name \in ArtifactNames |->
                    IF st[name] = "absent" THEN Absent
                    ELSE IF st[name] = "corrupt" THEN Corrupt
                    ELSE dir[name]]
    /\ phase = "boot"
    /\ models = [name \in {} |-> None]
    /\ scaler = None
    /\ now = 0
    /\ last = NoCall
    /\ saved = NoCall
    /\ ret = NoReturn
    /\ rng = [a |-> 1, b |-> 0]
    /\ NoRun

\* model_api = ModelAPI() at import of backend_integration
Construct ==
    /\ phase = "boot"
    /\ LET loaded == load_models(disk)
       IN  IF loaded.ok
           THEN /\ phase' = "serving"
                /\ models' = loaded.v.models
                /\ scaler' = loaded.v.scaler
           ELSE /\ phase' = "failed"
                /\ UNCHANGED <<models, scaler>>
    /\ UNCHANGED <<disk, now, last, saved, ret>>
    /\ UNCHANGED runVars

Tick ==
    /\ now < MaxClock
    /\ now' = now + 1
    /\ UNCHANGED <<disk, phase, models, scaler, last, saved, ret>>
    /\ UNCHANGED runVars

\* A request is answered; the response before it may be kept for later.
Answer(ep, body, resp) ==
    /\ last' = [ep |-> ep, body |-> body, resp |-> resp]
    /\ saved' \in {saved, last}
    /\ UNCHANGED <<disk, phase, models, scaler, now, ret>>
    /\ UNCHANGED runVars

GetHealth ==
    /\ phase = "serving"
    /\ Answer("/health", NonObject("null"), health_check(models))

\* /predict/ndvi with fit_transform in place of transform: the scaler is
\* fit again on the row of the request
PostPredictNdviRefit ==
    /\ phase = "serving"
    /\ \E body \in RequestBodies :
          LET X == BuildRow(body.fields, NdviFeatureCols, Num(0))
          IN  /\ last' = [ep |-> "/predict/ndvi", body |-> body,
                          resp |-> route_predict_ndvi(models, scaler, body)]
              /\ saved' \in {saved, last}
              /\ scaler' =
                    IF /\ scaler # None
                       /\ "ndvi_predictor" \in DOMAIN models
                       /\ body.kind = "object"
                       /\ \A i \in 1..Len(X) : X[i].t = "num"
                    THEN [type |-> "MinMaxScaler", cols |-> NdviFeatureCols,
                          data_min |-> [i \in 1..Len(X) |-> X[i].v],
                          data_max |-> [i \in 1..Len(X) |-> X[i].v]]
                    ELSE scaler
              /\ UNCHANGED <<disk, phase, models, now, ret>>
    /\ UNCHANGED runVars

PostPredictNdvi ==
    /\ phase = "serving"
    /\ \E body \in RequestBodies :
          Answer("/predict/ndvi", body,
                 route_predict_ndvi(models, scaler, body))

PostPredictChange ==
    /\ phase = "serving"
    /\ \E body \in RequestBodies :
          Answer("/predict/change", body,
                 route_predict_change(models, scaler, body))

PostPredictRisk ==
    /\ phase = "serving"
    /\ \E body \in RequestBodies :
          Answer("/predict/risk", body,
                 route_predict_risk(models, scaler, body))

PostPredictAll ==
    /\ phase = "serving"
    /\ \E body \in RequestBodies :
          Answer("/predict/all", body,
                 route_predict_all(models, scaler, now, body))

Next ==
    \/ Construct
    \/ Tick
    \/ GetHealth
    \/ PostPredictNdvi
    \/ PostPredictChange
    \/ PostPredictRisk
    \/ PostPredictAll

Spec == Init /\ [][Next]_vars

\* ------------------------------------------- direct calls of the engine
Return(fn, features, result) ==
    /\ ret' = [fn |-> fn, features |-> features, result |-> result]
    /\ UNCHANGED <<disk, phase, models, scaler, now, last, saved>>
    /\ UNCHANGED runVars

CallPredictNdvi ==
    /\ phase = "serving"
    /\ \E features \in FeatureDicts :
          Return("predict_ndvi", features,
                 predict_ndvi(models, scaler, features))

CallPredictChange ==
    /\ phase = "serving"
    /\ \E features \in FeatureDicts :
          Return("predict_change_detection", features,
                 predict_change_detection(models, scaler, features))

CallPredictRisk ==
    /\ phase = "serving"
    /\ \E features \in FeatureDicts :
          Return("predict_risk_level", features,
                 predict_risk_level(models, scaler, features))

CallPredictAll ==
    /\ phase = "serving"
    /\ \E features \in FeatureDicts :
          Return("predict_all", features,
                 predict_all(models, scaler, features))

CallNext ==
    \/ Construct
    \/ CallPredictNdvi
    \/ CallPredictChange
    \/ CallPredictRisk
    \/ CallPredictAll

CallSpec == Init /\ [][CallNext]_vars

\* ------------------------------------------ preprocess.py, train_model.py
\* A script is started: a new SatelliteDataPreprocessor, and for
\* train_model a new ModelTrainer.
Start(name) ==
    /\ script' = name
    /\ pc' = "generate"
    /\ df' = <<>>
    /\ scaler_features' = Unfitted
    /\ prepared' = [task \in {} |-> None]
    /\ trainer' = [models |-> [n \in {} |-> None], metrics |-> {}]
    /\ UNCHANGED <<disk, serveVars, rng, metrics_json>>

\* python preprocess.py
RunPreprocess ==
    /\ pc \in {"done", "failed"}
    /\ Start("preprocess")

\* python train_model.py
RunTrainModel ==
    /\ pc \in {"done", "failed"}
    /\ Start("train_model")

\* df = preprocessor.generate_synthetic_training_data()
Generate ==
    /\ pc = "generate"
    /\ df' = generate_synthetic_training_data(rng)
    /\ pc' = "prepare_ndvi"
    /\ UNCHANGED <<disk, serveVars, rng, script, scaler_features, prepared,
                   trainer, metrics_json>>

\* One prepare_features_for_* call of the script: the scaler of the
\* preprocessor is left as the call fitted it.
Prepare(step, task, result, next) ==
    /\ pc = step
    /\ scaler_features' = result.scaler_features
    /\ prepared' = [t \in DOMAIN prepared \cup {task} |->
                      IF t = task
                      THEN [X |-> result.X, y |-> result.y,
                            feature_cols |-> result.feature_cols]
                      ELSE prepared[t]]
    /\ pc' = next
    /\ UNCHANGED <<disk, serveVars, rng, script, df, trainer, metrics_json>>

PrepareNdvi ==
    /\ pc = "prepare_ndvi"
    /\ Prepare("prepare_ndvi", "ndvi_predictor",
               prepare_features_for_ndvi_prediction(df), "prepare_change")

PrepareChange ==
    /\ pc = "prepare_change"
    /\ Prepare("prepare_change", "change_detector",
               prepare_features_for_change_detection(df), "prepare_risk")

PrepareRisk ==
    /\ pc = "prepare_risk"
    /\ Prepare("prepare_risk", "risk_classifier",
               prepare_features_for_risk_classification(df),
               IF script = "preprocess" THEN "save_scaler" ELSE "train_ndvi")

\* preprocessor.save_scaler(): joblib.dump(self.scaler_features, path)
SaveScaler ==
    /\ pc = "save_scaler"
    /\ disk' = [disk EXCEPT !["scaler"] = scaler_features]
    /\ pc' = "done"
    /\ UNCHANGED <<serveVars, rng, script, df, scaler_features, prepared,
                   trainer, metrics_json>>

\* One train_test_split and trainer.train_* call of main; result is what
\* the two gave: the fitted model, or the exception that ends the script.
Train(step, name, result, next) ==
    /\ pc = step
    /\ IF result.ok
       THEN /\ trainer' =
                 [models |-> [n \in DOMAIN trainer.models \cup {name} |->
                                IF n = name THEN result.v
                                ELSE trainer.models[n]],
                  metrics |-> trainer.metrics \cup {name}]
            /\ pc' = next
       ELSE /\ pc' = "failed"
            /\ UNCHANGED trainer
    /\ UNCHANGED <<disk, serveVars, rng, script, df, scaler_features,
                   prepared, metrics_json>>

TrainNdvi ==
    /\ pc = "train_ndvi"
    /\ LET split == train_test_split(prepared["ndvi_predictor"].X,
                                     prepared["ndvi_predictor"].y, FALSE)
       IN  Train("train_ndvi", "ndvi_predictor",
                 IF split.ok THEN train_ndvi_prediction_model(split.v)
                 ELSE split,
                 "train_change")

TrainChange ==
    /\ pc = "train_change"
    /\ LET split == train_test_split(prepared["change_detector"].X,
                                     prepared["change_detector"].y, TRUE)
       IN  Train("train_change", "change_detector",
                 IF split.ok THEN train_change_detection_model(split.v)
                 ELSE split,
                 "train_risk")

TrainRisk ==
    /\ pc = "train_risk"
    /\ LET split == train_test_split(prepared["risk_classifier"].X,
                                     prepared["risk_classifier"].y, TRUE)
       IN  Train("train_risk", "risk_classifier",
                 IF split.ok THEN train_risk_classification_model(split.v)
                 ELSE split,
                 "save_all_models")

\* trainer.save_all_models(): one .pkl per trained model, and metrics.json
SaveAllModels ==
    /\ pc = "save_all_models"
    /\ disk' = [name \in ArtifactNames |->
                  IF name \in DOMAIN trainer.models
                  THEN trainer.models[name] ELSE disk[name]]
    /\ metrics_json' = [type |-> "json", keys |-> trainer.metrics]
    /\ pc' = "done"
    /\ UNCHANGED <<serveVars, rng, script, df, scaler_features, prepared,
                   trainer>>

\* The engine called on the sample observation of inference.py
SamplePredictNdvi ==
    /\ phase = "serving"
    /\ Return("predict_ndvi", Object(sample_features),
              predict_ndvi(models, scaler, Object(sample_features)))

SamplePredictChange ==
    /\ phase = "serving"
    /\ Return("predict_change_detection", Object(sample_features),
              predict_change_detection(models, scaler, Object(sample_features)))

SamplePredictRisk ==
    /\ phase = "serving"
    /\ Return("predict_risk_level", Object(sample_features),
              predict_risk_level(models, scaler, Object(sample_features)))

SamplePredictAll ==
    /\ phase = "serving"
    /\ Return("predict_all", Object(sample_features),
              predict_all(models, scaler, Object(sample_features)))

\* An empty models directory; the scripts have not run.
PipeInit ==
    /\ disk = [name \in ArtifactNames |-> Absent]
    /\ phase = "boot"
    /\ models = [name \in {} |-> None]
    /\ scaler = None
    /\ now = 0
    /\ last = NoCall
    /\ saved = NoCall
    /\ ret = NoReturn
    /\ rng \in Streams
    /\ NoRun

PipeNext ==
    \/ RunPreprocess
    \/ RunTrainModel
    \/ Generate
    \/ PrepareNdvi
    \/ PrepareChange
    \/ PrepareRisk
    \/ SaveScaler
    \/ TrainNdvi
    \/ TrainChange
    \/ TrainRisk
    \/ SaveAllModels
    \/ Construct
    \/ SamplePredictNdvi
    \/ SamplePredictChange
    \/ SamplePredictRisk
    \/ SamplePredictAll

PipeSpec == PipeInit /\ [][PipeNext]_vars

\* ================================================================ claims
PredictEndpoints ==
    {"/predict/ndvi", "/predict/change", "/predict/risk", "/predict/all"}

\* The model a single-task endpoint serves.
TaskModel(ep) ==
    IF ep = "/predict/ndvi" THEN "ndvi_predictor"
    ELSE IF ep = "/predict/change" THEN "change_detector"
    ELSE "risk_classifier"

Answered(ep) == last.ep = ep

\* C1: every POST /predict/* answers 200 with success = true, or 400 with
\* exactly {success: false, error: <non-empty string>}; never a 500.
C1_UniformEnvelope ==
    last.ep \in PredictEndpoints =>
        \/ /\ last.resp.status = 200
           /\ "success" \in DOMAIN last.resp.json
           /\ last.resp.json.success = TRUE
        \/ /\ last.resp.status = 400
           /\ DOMAIN last.resp.json = {"success", "error"}
           /\ last.resp.json.success = FALSE
           /\ last.resp.json.error # ""

\* C1 witness: a body that is not an object reached /predict/all, where
\* the result of process_request has no 'success' key, and got the envelope.
C1_Witness ==
    /\ Answered("/predict/all")
    /\ last.body.kind = "array"
    /\ last.resp.status = 400
    /\ last.resp.json.error = "'success'"

\* C2: when a task's model was not loaded, every request to that task's
\* endpoint answers 400 with a non-empty error, whatever the body, the
\* scaler and the other two models.
C2_MissingModelIs400 ==
    /\ last.ep \in PredictEndpoints \ {"/predict/all"}
    /\ TaskModel(last.ep) \notin DOMAIN models
    => /\ last.resp.status = 400
       /\ last.resp.json.success = FALSE
       /\ last.resp.json.error # ""

\* C2 witness: the change detector is the only artifact missing and a
\* complete object was posted to /predict/change.
C2_Witness ==
    /\ Answered("/predict/change")
    /\ DOMAIN models = ModelNames \ {"change_detector"}
    /\ scaler # None
    /\ last.body = Object(sample_features)
    /\ last.resp.status = 400

\* What the NDVI regressor returns for a body, before clipping.
RawNdvi(body) ==
    regressor_predict(
        models["ndvi_predictor"],
        transform(scaler, BuildRow(body.fields, NdviFeatureCols, Num(0))).v).v

NdviForecastOf(call) ==
    IF call.ep = "/predict/ndvi" THEN call.resp.json.ndvi_forecast
    ELSE call.resp.json.predictions.ndvi_forecast

\* C3: the ndvi_forecast of a 200 response of /predict/ndvi and of
\* /predict/all is max(0, min(1, raw)) for the raw output of the regressor,
\* hence within [0,1].
C3_ForecastClamped ==
    /\ last.ep \in {"/predict/ndvi", "/predict/all"}
    /\ last.resp.status = 200
    => /\ NdviForecastOf(last) \in 0..Resolution
       /\ NdviForecastOf(last) =
            Max2(0, Min2(Resolution, RawNdvi(last.body)))

\* C3 witness: the regressor returned a value below 0 and the forecast of
\* the 200 response is 0.
C3_Witness ==
    /\ Answered("/predict/ndvi")
    /\ last.resp.status = 200
    /\ RawNdvi(last.body) < 0
    /\ last.resp.json.ndvi_forecast = 0

SubPredictionsSucceed(body) ==
    /\ predict_ndvi(models, scaler, body).ok
    /\ predict_change_detection(models, scaler, body).ok
    /\ predict_risk_level(models, scaler, body).ok

\* C4: /predict/all answers 200 with predictions holding all three results
\* exactly when the three sub-predictions succeed; otherwise it answers 400
\* {success: false, error} without any prediction.
C4_CombinedCallAtomic ==
    last.ep = "/predict/all" =>
        /\ (last.resp.status = 200) <=> SubPredictionsSucceed(last.body)
        /\ last.resp.status = 200 =>
              /\ "predictions" \in DOMAIN last.resp.json
              /\ DOMAIN last.resp.json.predictions =
                   {"ndvi_forecast", "change_detection", "risk_assessment"}
        /\ last.resp.status # 200 =>
              /\ last.resp.status = 400
              /\ DOMAIN last.resp.json = {"success", "error"}
              /\ last.resp.json.success = FALSE

\* C4 witness: the first two sub-predictions succeed, the third fails, and
\* the response is the error envelope.
C4_Witness ==
    /\ Answered("/predict/all")
    /\ predict_ndvi(models, scaler, last.body).ok
    /\ predict_change_detection(models, scaler, last.body).ok
    /\ ~predict_risk_level(models, scaler, last.body).ok
    /\ last.resp.status = 400

\* A features dict with every field of cols it leaves out set to 0.0
ZeroFill(features, cols) ==
    Object([k \in DOMAIN features.fields \cup Range(cols) |->
              IF k \in DOMAIN features.fields
              THEN features.fields[k] ELSE Num(0)])

\* A features dict without the fields that are not in cols
OnlyTaskFields(features, cols) ==
    Object(Restrict(features.fields, Range(cols)))

Engine(fn, features) ==
    IF fn = "predict_ndvi" THEN predict_ndvi(models, scaler, features)
    ELSE IF fn = "predict_change_detection"
    THEN predict_change_detection(models, scaler, features)
    ELSE predict_risk_level(models, scaler, features)

TaskCols(fn) ==
    IF fn = "predict_ndvi" THEN NdviFeatureCols
    ELSE IF fn = "predict_change_detection" THEN ChangeFeatureCols
    ELSE RiskFeatureCols

TaskModelOf(fn) ==
    IF fn = "predict_ndvi" THEN "ndvi_predictor"
    ELSE IF fn = "predict_change_detection" THEN "change_detector"
    ELSE "risk_classifier"

SingleTaskCalls ==
    {"predict_ndvi", "predict_change_detection", "predict_risk_level"}

\* C5: with the task's model and the scaler loaded, a call of predict_ndvi,
\* predict_change_detection or predict_risk_level returns what the same
\* call returns when every omitted field of the task is given as 0.0, and
\* what it returns without the fields that are not in the task's list.
C5_MissingFieldsDefaultToZero ==
    /\ ret.fn \in SingleTaskCalls
    /\ TaskModelOf(ret.fn) \in DOMAIN models
    /\ scaler # None
    => /\ ret.result = Engine(ret.fn, ZeroFill(ret.features, TaskCols(ret.fn)))
       /\ ret.result =
            Engine(ret.fn, OnlyTaskFields(ret.features, TaskCols(ret.fn)))

\* C5 witness: predict_risk_level succeeded on the sample object without
\* its ndvi and humidity fields (and with the two bands it never reads).
C5_Witness ==
    /\ ret.fn = "predict_risk_level"
    /\ ret.features =
         Object(Restrict(sample_features, AllFields \ {"humidity", "ndvi"}))
    /\ ret.result.ok

\* The class the risk classifier returns for a body.
RawRiskClass(body) ==
    classifier_predict(
        models["risk_classifier"],
        transform(scaler, BuildRow(body.fields, RiskFeatureCols, Num(0))).v).v

\* The request got as far as the predict call of the risk classifier.
RiskClassifierReached(body) ==
    /\ body.kind = "object"
    /\ "risk_classifier" \in DOMAIN models
    /\ scaler # None
    /\ transform(scaler, BuildRow(body.fields, RiskFeatureCols, Num(0))).ok
    /\ Len(RiskFeatureCols) = models["risk_classifier"].n_features_in

RiskAssessmentOf(call) ==
    IF call.ep = "/predict/risk"
    THEN call.resp.json
    ELSE call.resp.json.predictions.risk_assessment

LabelOf(level) ==
    IF level = 0 THEN "Low" ELSE IF level = 1 THEN "Medium" ELSE "High"

\* C6: a successful risk result has risk_level in {0,1,2} and the label of
\* that level; when the classifier returns another class, the request
\* fails with 400.
C6_RiskLevelLabelled ==
    last.ep \in {"/predict/risk", "/predict/all"} =>
        /\ last.resp.status = 200 =>
              /\ RiskAssessmentOf(last).risk_level \in {0, 1, 2}
              /\ RiskAssessmentOf(last).risk_label =
                   LabelOf(RiskAssessmentOf(last).risk_level)
              /\ RiskAssessmentOf(last).risk_level = RawRiskClass(last.body)
        /\ ( /\ RiskClassifierReached(last.body)
             /\ RawRiskClass(last.body) \notin {0, 1, 2} )
           => last.resp.status = 400

\* C6 witness: the classifier returned class 3 and /predict/risk answered
\* 400.
C6_Witness ==
    /\ Answered("/predict/risk")
    /\ RiskClassifierReached(last.body)
    /\ RawRiskClass(last.body) = 3
    /\ last.resp.status = 400

SameRequest(a, b) ==
    /\ a.ep \in PredictEndpoints
    /\ a.ep = b.ep
    /\ a.body = b.body

\* C7 as stated: two calls of the same predict endpoint with the same input
\* return identical response bodies.
C7_IdenticalResponses ==
    SameRequest(saved, last) => saved.resp = last.resp

WithoutTimestamp(json) ==
    [k \in DOMAIN json \ {"timestamp"} |-> json[k]]

\* C7 amended: two calls of the same predict endpoint with the same input
\* return the same status and, apart from the timestamp of a successful
\* /predict/all, the same body; the responses of the three single-task
\* endpoints and every error response are identical.
C7_IdenticalApartFromTimestamp ==
    SameRequest(saved, last) =>
        /\ saved.resp.status = last.resp.status
        /\ WithoutTimestamp(saved.resp.json) = WithoutTimestamp(last.resp.json)
        /\ ( \/ last.ep # "/predict/all"
             \/ last.resp.status # 200 ) => saved.resp = last.resp

\* C7 witness: /predict/all answered the same complete object twice with
\* 200, at two different times, with another request in between or not.
C7_Witness ==
    /\ SameRequest(saved, last)
    /\ Answered("/predict/all")
    /\ last.resp.status = 200
    /\ saved.resp.json.timestamp # last.resp.json.timestamp

\* C8: once the engine is built, no step changes the loaded models, the
\* scaler or the artifacts on disk, and /health lists the same models
\* before and after every request.
C8_ServingNeverMutatesEngine ==
    [][phase = "serving" =>
          /\ models' = models
          /\ scaler' = scaler
          /\ disk' = disk
          /\ health_check(models').json.models
               = health_check(models).json.models]_vars

\* C8 witness: a failed and then a successful request were served by an
\* engine that still holds what construction loaded.
C8_Witness ==
    /\ phase = "serving"
    /\ saved.ep \in PredictEndpoints
    /\ saved.resp.status = 400
    /\ last.ep \in PredictEndpoints
    /\ last.resp.status = 200
    /\ models = load_models(disk).v.models
    /\ scaler = load_models(disk).v.scaler

SomeArtifactMissing == \E name \in ArtifactNames : disk[name] = Absent

\* C9 as stated: construction with a missing artifact fails, it yields no
\* usable engine.
C9_FailsFastWhenMissing ==
    SomeArtifactMissing => phase # "serving"

\* C9 amended: construction does not fail for a missing artifact; when no
\* load raises anything but FileNotFoundError, the engine is built with
\* exactly the models whose file exists, and its scaler is None exactly
\* when the scaler file is missing.
C9_MissingArtifactsAreSkipped ==
    /\ phase # "boot"
    /\ \A name \in ArtifactNames : disk[name] # Corrupt
    => /\ phase = "serving"
       /\ DOMAIN models = {name \in ModelNames : disk[name] # Absent}
       /\ \A name \in DOMAIN models : models[name] = disk[name]
       /\ (scaler = None) <=> (disk["scaler"] = Absent)
       /\ scaler # None => scaler = disk["scaler"]

\* C9 witness: the engine was built although the scaler and the NDVI model
\* are missing.
C9_Witness ==
    /\ phase = "serving"
    /\ disk["scaler"] = Absent
    /\ disk["ndvi_predictor"] = Absent
    /\ DOMAIN models = {"change_detector", "risk_classifier"}

RouteSingle(ep, mdls, sc, body) ==
    IF ep = "/predict/ndvi" THEN route_predict_ndvi(mdls, sc, body)
    ELSE IF ep = "/predict/change" THEN route_predict_change(mdls, sc, body)
    ELSE route_predict_risk(mdls, sc, body)

NotLoadedMessage(name) ==
    IF name = "ndvi_predictor" THEN "NDVI predictor model not loaded"
    ELSE IF name = "change_detector" THEN "Change detector model not loaded"
    ELSE "Risk classifier model not loaded"

\* C10: with the scaler loaded, a single-task endpoint whose own model is
\* loaded answers exactly as it does with any other combination of the two
\* other models loaded or missing (hence 200 whenever it answers 200 with
\* all three loaded); a single-task endpoint never reports another task's
\* model as not loaded; /predict/all answers 400 as soon as one of the
\* three models is missing.
C10_PerArtifactIsolation ==
    /\ ( /\ last.ep \in PredictEndpoints \ {"/predict/all"}
         /\ scaler # None
         /\ TaskModel(last.ep) \in DOMAIN models )
       => \A others \in SUBSET (ModelNames \ {TaskModel(last.ep)}) :
             last.resp =
               RouteSingle(last.ep,
                           [name \in others \cup {TaskModel(last.ep)} |->
                              IF name = TaskModel(last.ep)
                              THEN models[name] ELSE ConsistentDir[name]],
                           scaler, last.body)
    /\ ( /\ last.ep \in PredictEndpoints \ {"/predict/all"}
         /\ last.resp.status = 400 )
       => \A name \in ModelNames \ {TaskModel(last.ep)} :
             last.resp.json.error # NotLoadedMessage(name)
    /\ ( /\ last.ep = "/predict/all"
         /\ DOMAIN models # ModelNames )
       => last.resp.status = 400

\* C10 witness: only the change detector and the scaler are loaded, and
\* /predict/change answered 200.
C10_Witness ==
    /\ Answered("/predict/change")
    /\ DOMAIN models = {"change_detector"}
    /\ scaler # None
    /\ last.resp.status = 200

\* C11: GET /health answers 200 and its models list is exactly the set of
\* model names whose artifact was loaded at startup, whether or not the
\* scaler was loaded.
C11_HealthListsLoadedModels ==
    last.ep = "/health" =>
        /\ last.resp.status = 200
        /\ last.resp.json.models =
             {name \in ModelNames : disk[name] \notin {Absent, Corrupt}}
        /\ last.resp.json.models \subseteq ModelNames

\* C11 witness: /health answered with two of the three models while the
\* scaler is missing.
C11_Witness ==
    /\ Answered("/health")
    /\ scaler = None
    /\ last.resp.json.models = {"ndvi_predictor", "risk_classifier"}

\* C12: in a 200 response of /predict/change, change_detected is a boolean
\* and severity is "high" exactly when confidence > 0.8, "low" otherwise.
C12_SeverityFollowsConfidence ==
    /\ last.ep = "/predict/change"
    /\ last.resp.status = 200
    => /\ last.resp.json.change_detected \in BOOLEAN
       /\ last.resp.json.severity \in {"high", "low"}
       /\ (last.resp.json.severity = "high")
            <=> (10 * last.resp.json.confidence > 8 * Resolution)

\* C12 witness: a change was detected with a confidence that is not above
\* 0.8, and the severity is "low".
C12_Witness ==
    /\ Answered("/predict/change")
    /\ last.resp.status = 200
    /\ last.resp.json.change_detected
    /\ 10 * last.resp.json.confidence <= 8 * Resolution
    /\ last.resp.json.severity = "low"

\* The probabilities the task's classifier returns for a features dict.
ProbabilitiesOf(fn, features) ==
    classifier_predict_proba(
        models[TaskModelOf(fn)],
        transform(scaler, BuildRow(features.fields, TaskCols(fn), Num(0))).v).v

\* Position of a label in the class list of the task's classifier.
ClassIndex(fn, label) ==
    CHOOSE i \in 1..Len(models[TaskModelOf(fn)].classes) :
        models[TaskModelOf(fn)].classes[i] = label

ReturnedLabel(call) ==
    IF call.fn = "predict_change_detection"
    THEN (IF call.result.v.is_change THEN 1 ELSE 0)
    ELSE call.result.v.risk_level

ClassifierCalls == {"predict_change_detection", "predict_risk_level"}

\* C17 as stated: the confidence of a successful classifier result is the
\* probability of the label it returns (is_change / risk_level).
C17_ConfidenceOfReturnedLabel ==
    /\ ret.fn \in ClassifierCalls
    /\ ret.result.ok
    => ret.result.v.confidence =
         ProbabilitiesOf(ret.fn, ret.features)[
             ClassIndex(ret.fn, ReturnedLabel(ret))]

\* C17 amended: the confidence of predict_risk_level is the probability of
\* the returned risk_level; the confidence of predict_change_detection is
\* the probability of the positive class, which is the probability of the
\* returned label only when is_change is true.
C17_ConfidenceOfPositiveOrTopClass ==
    /\ ret.fn \in ClassifierCalls
    /\ ret.result.ok
    => /\ ret.fn = "predict_risk_level" =>
             ret.result.v.confidence =
               ProbabilitiesOf(ret.fn, ret.features)[
                   ClassIndex(ret.fn, ret.result.v.risk_level)]
       /\ ret.fn = "predict_change_detection" =>
             ret.result.v.confidence =
               ProbabilitiesOf(ret.fn, ret.features)[ClassIndex(ret.fn, 1)]

\* C17 witness: predict_change_detection returned is_change false with the
\* probability of the positive class, which is not that of the label.
C17_Witness ==
    /\ ret.fn = "predict_change_detection"
    /\ ret.result.ok
    /\ ~ret.result.v.is_change
    /\ ret.result.v.confidence =
         ProbabilitiesOf(ret.fn, ret.features)[ClassIndex(ret.fn, 1)]
    /\ ret.result.v.confidence #
         ProbabilitiesOf(ret.fn, ret.features)[ClassIndex(ret.fn, 0)]

\* ------------------------------------------------------------------ C18
\* C18: in every row of the generated table that has a previous day,
\* ndvi_prev is the NDVI of the previous day and ndvi_change is
\* ndvi - ndvi_prev; the ndvi_prev of the first row does not come from
\* another observation of the series, so it is the same for every series
\* that starts with the same observation.
C18_PreviousDayColumns ==
    df # <<>> =>
      /\ \A i \in 2..Len(df) :
            /\ df[i].ndvi_prev = df[i - 1].ndvi
            /\ df[i].ndvi_change.v = df[i].ndvi.v - df[i].ndvi_prev.v
      /\ \A other \in Streams :
            ndvi_values(other)[1] = ndvi_values(rng)[1]
            => generate_synthetic_training_data(other)[1].ndvi_prev
                 = df[1].ndvi_prev

\* ------------------------------------------------------------------ C19
\* C19: every generated row has risk_level 2 if ndvi < 0.4, otherwise 1
\* if ndvi < 0.6 or ndvi_change < -0.05, otherwise 0, all comparisons
\* strict; and is_change is 1 exactly when ndvi_change < -0.1.
C19_LabelsFollowRule ==
    df # <<>> =>
      \A i \in 1..Len(df) :
         LET n == df[i].ndvi.v
             c == df[i].ndvi_change.v
             high == 10 * n < 4 * Grid
             medium == 10 * n < 6 * Grid \/ 100 * c < -5 * Grid
         IN  /\ df[i].risk_level.v \in {0, 1, 2}
             /\ df[i].risk_level.v = 2 <=> high
             /\ df[i].risk_level.v = 1 <=> ~high /\ medium
             /\ df[i].risk_level.v = 0 <=> ~high /\ ~medium
             /\ df[i].is_change.v \in {0, 1}
             /\ df[i].is_change.v = 1 <=> 100 * c < -10 * Grid

\* A table with all three risk levels and both change labels, and with
\* rows exactly on the thresholds 0.4 and 0.6 of ndvi.
C19_Witness ==
    /\ df # <<>>
    /\ \A l \in {0, 1, 2} : \E i \in 1..Len(df) : df[i].risk_level.v = l
    /\ \A l \in {0, 1} : \E i \in 1..Len(df) : df[i].is_change.v = l
    /\ \E i \in 1..Len(df) : 10 * df[i].ndvi.v = 4 * Grid
    /\ \E i \in 1..Len(df) :
          10 * df[i].ndvi.v = 6 * Grid /\ 100 * df[i].ndvi_change.v >= -5 * Grid

\* ------------------------------------------------------------------ C20
\* The target column of a task
TargetOf(task) ==
    IF task = "ndvi_predictor" THEN "ndvi_7day_ahead"
    ELSE IF task = "change_detector" THEN "is_change" ELSE "risk_level"

\* The table rows, in table order, that miss none of the fields and not
\* the target
KeptRows(cols, target) ==
    SortedSeq({i \in 1..Len(df) :
                 \A c \in Range(cols) \cup {target} : ~isna(df[i][c])})

\* The fields of table row i, unscaled
RawRow(i, cols) == [j \in 1..Len(cols) |-> df[i][cols[j]]]

\* The prepare_features_for_* call of the task has just returned
JustPrepared(task) ==
    IF task = "ndvi_predictor" THEN pc = "prepare_change"
    ELSE IF task = "change_detector" THEN pc = "prepare_risk"
    ELSE pc \in {"save_scaler", "train_ndvi"}

\* What a call that prepared the task must have returned
Aligned(task) ==
    LET p == prepared[task]
        kept == KeptRows(p.feature_cols, TargetOf(task))
        raw == [k \in 1..Len(kept) |-> RawRow(kept[k], p.feature_cols)]
        fitted == fit(p.feature_cols, raw)
        ndvi == [i \in 1..Len(df) |-> df[i].ndvi.v]
    IN  /\ Len(p.X) = Len(p.y)
        /\ Len(p.y) = Len(kept)
        /\ p.y = [k \in 1..Len(kept) |-> df[kept[k]][TargetOf(task)]]
        /\ p.X = [k \in 1..Len(kept) |-> transform(fitted, raw[k]).v]
        /\ task = "ndvi_predictor" =>
              /\ kept = [k \in 1..(Periods - Window) |-> k]
              /\ p.y = [k \in 1..Len(kept) |->
                          Mean(SumRange(ndvi, k + 1, k + Window), Window)]

\* C20: every prepare_features_for_* call returns X and y of the same
\* length, row k of X and entry k of y come from the same table row, a
\* row is kept exactly when none of its task fields and not its target
\* is missing; the NDVI target of row i is the mean NDVI of rows
\* i+1..i+7, so exactly the last 7 rows are dropped.
C20_PreparedRowsAligned ==
    \A task \in DOMAIN prepared : JustPrepared(task) => Aligned(task)

\* The NDVI task has just been prepared: the last 7 rows of the table had
\* no target and were dropped, and the targets kept differ.
C20_Witness ==
    /\ DOMAIN prepared = {"ndvi_predictor"}
    /\ JustPrepared("ndvi_predictor")
    /\ Len(prepared["ndvi_predictor"].X) = Periods - Window
    /\ \A i \in 1..Len(df) : isna(df[i].ndvi_7day_ahead) <=> i > Periods - Window
    /\ \E k \in 1..(Periods - Window) :
          prepared["ndvi_predictor"].y[k].v # prepared["ndvi_predictor"].y[1].v

\* ------------------------------------------------------------------ C13
\* C13: the scaler is fit exactly once: once it is fitted, no later
\* step of the run (a feature preparation of any task, the save) and no
\* call of the engine changes its per-column min/max parameters.
C13_ScalerFitOnce ==
    [][/\ scaler_features # Unfitted /\ pc \notin {"done", "failed"}
          => scaler_features' = scaler_features
       /\ phase = "serving" => scaler' = scaler]_vars

\* ------------------------------------------------------------------ C14
\* C14: whenever one of the three predict operations of the engine gets
\* as far as scaler.transform, the field list it passes (names and
\* order) is the field list the loaded scaler was fit with.
C14_TransformFieldsMatchFit ==
    /\ ret.fn \in SingleTaskCalls
    /\ TaskModelOf(ret.fn) \in DOMAIN models
    /\ scaler # None
    => TaskCols(ret.fn) = scaler.cols

\* ------------------------------------------------------------------ C15
\* C15: for each task the ordered field list of the training matrix is
\* the ordered field list of the inference vector, for the NDVI forecast
\* the 7 fields ndvi_prev, ndvi_change, red_band, nir_band, cloud_cover,
\* temperature, humidity; so a trained model has the column count it
\* receives at prediction.
C15_SameFieldsAtTrainingAndInference ==
    /\ \A fn \in SingleTaskCalls :
          TaskModelOf(fn) \in DOMAIN prepared
          => prepared[TaskModelOf(fn)].feature_cols = TaskCols(fn)
    /\ "ndvi_predictor" \in DOMAIN prepared
          => prepared["ndvi_predictor"].feature_cols =
               <<"ndvi_prev", "ndvi_change", "red_band", "nir_band",
                 "cloud_cover", "temperature", "humidity">>
    /\ \A fn \in SingleTaskCalls :
          TaskModelOf(fn) \in DOMAIN trainer.models
          => trainer.models[TaskModelOf(fn)].n_features_in = Len(TaskCols(fn))

\* ------------------------------------------------------------------ C16
\* C16: when train_model has run to its end the models directory holds
\* the three models, the fitted scaler and the metrics summary, and an
\* engine constructed on it has every model and the scaler loaded.
C16_TrainingSavesAllArtifacts ==
    script = "train_model" /\ pc = "done"
    => /\ \A name \in ArtifactNames : disk[name] \notin {Absent, Corrupt}
       /\ metrics_json # Absent
       /\ load_models(disk).ok
       /\ DOMAIN load_models(disk).v.models = ModelNames
       /\ load_models(disk).v.scaler # None

\* ------------------------------------------------------------------ C21
\* Bodies that are valid JSON but not an object
NonObjectJson == {b \in RequestBodies : b.kind \in {"null", "array"}}

\* C21: POST /predict/all with a body that is valid JSON but not an
\* object answers 400 with exactly {success: false, error: 'Invalid
\* request format'}, and the result process_request gives for such a
\* body has a success field.
C21_NonObjectRejectedAsInvalidFormat ==
    last.ep = "/predict/all" /\ last.body \in NonObjectJson
    => /\ last.resp =
            Response(400, [success |-> FALSE,
                           error |-> "Invalid request format"])
       /\ "success" \in
            DOMAIN process_request(models, scaler, now, last.body).v

====
